---- MODULE Spec2Model ----
(***************************************************************************)
(* The PropiedadIA / ContenidoIA proxy.  The repository holds three        *)
(* versions of the server: the single-model OpenRouter server              *)
(* (src/server.js 1-297), the Inaia server (src/server.js 299-637) and the *)
(* OpenRouter server with the model-list fallback loop                     *)
(* (src/README.md 73-437).  A deployment runs one of them: variant.        *)
(*                                                                         *)
(* A request walks the middleware chain in the order of the app.use calls: *)
(* cors, the rate limiter (on /api/ paths), express.json, the route        *)
(* handler.  The generate handlers suspend at each await of the upstream   *)
(* call; UpstreamReply is the resumption.                                  *)
(***************************************************************************)
EXTENDS Integers, Sequences, FiniteSets, TLC

VARIABLES variant, hits, req, toSend, seen, admitted,
          proc, apiKey, content, posts, data, prompt

\* the process: proc is where it is in its life, apiKey whether the
\* environment holds OPENROUTER_API_KEY
startup == <<proc, apiKey>>

\* the helpers taken alone: the text handed to the post parser and what it
\* gave, the data handed to a prompt builder and what it gave
helpers == <<content, posts, data, prompt>>

vars == <<variant, hits, req, toSend, seen, admitted, startup, helpers>>

(***************************************************************************)
(* Bounds of the model.                                                    *)
(***************************************************************************)
\* requests handled at the same time in SpecConc
MaxInFlight == 2
\* requests the clients send in one behaviour of Spec
MaxRequests == 2
\* requests the clients send beyond the limiter's max in SpecConc
MaxOver == 2
\* steps in which the clock of a call's 30 s timer reaches its deadline
MaxTicks == 2
\* tokens of prose before and after the bracketed span in SpecParse
MaxProse == 2

(***************************************************************************)
(* Configuration.                                                          *)
(***************************************************************************)
Variants == {"openrouter", "fallback", "inaia"}

\* process.env.ALLOWED_ORIGINS unset: the default list
allowedOrigins == {"http://localhost:5500"}

NoOrigin == "(none)"

Origins == {NoOrigin, "http://localhost:5500", "https://evil.example"}

IPs == {"10.0.0.1", "10.0.0.2"}

\* rateLimit({ max: 10 })
max == 10

rateLimitMessage == "Demasiadas solicitudes. Por favor espera un momento."

HEALTH == "GET /api/health"

PROPIEDAD == "POST /api/propiedadia/generate"

CONTENIDO == "POST /api/contenidoia/generate"

UNKNOWN_API == "GET /api/unknown"

OUTSIDE_API == "GET /"

Routes == {HEALTH, PROPIEDAD, CONTENIDO, UNKNOWN_API, OUTSIDE_API}

\* app.use(limiter): the limiter mounted on every path
MountedOnRoot(route) == TRUE

\* app.use('/api/', limiter): the paths the limiter is mounted on
IsApiPath(route) == route \in {HEALTH, PROPIEDAD, CONTENIDO, UNKNOWN_API}

(***************************************************************************)
(* Request bodies.  A field is TRUE when it is present and truthy (the     *)
(* handlers test it with !field).  postCount is absent, a non-numeric      *)
(* string, or an integer.  parsed: express.json has set req.body.          *)
(***************************************************************************)
Absent == [t |-> "absent", n |-> 0]

NonNumeric == [t |-> "text", n |-> 0]

Num(n) == [t |-> "int", n |-> n]

PostCountInputs == {Absent, NonNumeric} \cup {Num(n) : n \in {-3, 0, 7, 45}}

\* req.body before express.json has run
NoBody == [parsed |-> FALSE, propertyType |-> FALSE, location |-> FALSE,
           businessType |-> FALSE, postCount |-> Absent]

Parsed == [NoBody EXCEPT !.parsed = TRUE]

BodiesFor(route) ==
    CASE route = PROPIEDAD ->
           {[Parsed EXCEPT !.propertyType = p, !.location = l] : p, l \in BOOLEAN}
      [] route = CONTENIDO ->
           {[Parsed EXCEPT !.businessType = b, !.postCount = c] :
                b \in BOOLEAN, c \in PostCountInputs}
      [] OTHER -> {Parsed}

(***************************************************************************)
(* Upstream texts: what the model wrote.                                   *)
(***************************************************************************)
EMPTY == ""

BLANK == "   "

PROSE == "Hermoso departamento en Santiago"

BADSPAN == "Claro: [post uno, post dos]"

EMPTYARRAY == "Lo siento: []"

POSTS == "Here you go: [{\"content\":\"hi\",\"hashtags\":[\"#a\"]}] Enjoy!"

\* String.prototype.trim() === ''
Trim(text) == IF text = BLANK THEN EMPTY ELSE text

\* JavaScript truthiness of a string
Truthy(text) == text # EMPTY

(***************************************************************************)
(* The text as the parser sees it: a sequence of tokens.  OPEN is the      *)
(* head of a post object up to the value of its hashtags, TAG a string     *)
(* literal, WORD a word of prose.                                          *)
(***************************************************************************)
LB == "["

RB == "]"

COMMA == ","

OPEN == "{\"content\":\"hi\",\"hashtags\":"

CLOSE == "}"

TAG == "\"#a\""

WORD == "word"

SPACE == " "

Tokens(text) ==
    CASE text = EMPTY -> <<>>
      [] text = BLANK -> <<SPACE, SPACE, SPACE>>
      [] text = PROSE -> <<WORD, SPACE, WORD>>
      [] text = BADSPAN -> <<WORD, SPACE, LB, WORD, COMMA, SPACE, WORD, RB>>
      [] text = EMPTYARRAY -> <<WORD, SPACE, LB, RB>>
      [] text = POSTS ->
           <<WORD, SPACE, LB, OPEN, LB, TAG, RB, CLOSE, RB, SPACE, WORD>>

\* String.prototype.match without a match: null
NoMatch == <<>>

\* the regular expression with a lazy star: /\[[\s\S]*?\]/
matchLazy(toks) ==
    LET starts == {i \in 1 .. Len(toks) :
                     toks[i] = LB /\ \E j \in i + 1 .. Len(toks) : toks[j] = RB}
    IN  IF starts = {} THEN NoMatch
        ELSE LET i == CHOOSE k \in starts : \A l \in starts : k <= l
                 ends == {j \in i + 1 .. Len(toks) : toks[j] = RB}
                 j == CHOOSE k \in ends : \A l \in ends : k <= l
             IN  SubSeq(toks, i, j)

\* content.match(/\[[\s\S]*\]/): the leftmost position where the expression
\* matches, and from there the longest match
match(toks) ==
    LET starts == {i \in 1 .. Len(toks) :
                     toks[i] = LB /\ \E j \in i + 1 .. Len(toks) : toks[j] = RB}
    IN  IF starts = {} THEN NoMatch
        ELSE LET i == CHOOSE k \in starts : \A l \in starts : k <= l
                 ends == {j \in i + 1 .. Len(toks) : toks[j] = RB}
                 j == CHOOSE k \in ends : \A l \in ends : k >= l
             IN  SubSeq(toks, i, j)

\* JSON values: a string, an array, a post object {content, hashtags}
Str(str) == [t |-> "string", s |-> str, items |-> <<>>]

Arr(items) == [t |-> "array", s |-> "", items |-> items]

Post(text, hashtags) == [t |-> "object", s |-> text, items |-> <<hashtags>>]

ParseFail == [ok |-> FALSE, value |-> Str(""), next |-> 0]

ParseOk(value, next) == [ok |-> TRUE, value |-> value, next |-> next]

RECURSIVE parseValue(_, _)
RECURSIVE parseElements(_, _, _)

\* the JSON value that starts at toks[i]
parseValue(toks, i) ==
    IF i > Len(toks) THEN ParseFail
    ELSE CASE toks[i] = TAG -> ParseOk(Str("#a"), i + 1)
           [] toks[i] = OPEN ->
                LET h == parseValue(toks, i + 1)
                IN  IF h.ok /\ h.next <= Len(toks) /\ toks[h.next] = CLOSE
                    THEN ParseOk(Post("hi", h.value), h.next + 1)
                    ELSE ParseFail
           [] toks[i] = LB ->
                IF i + 1 <= Len(toks) /\ toks[i + 1] = RB
                THEN ParseOk(Arr(<<>>), i + 2)
                ELSE parseElements(toks, i + 1, <<>>)
           [] OTHER -> ParseFail

\* the elements of an array from toks[i] to its closing bracket
parseElements(toks, i, acc) ==
    LET v == parseValue(toks, i)
    IN  IF ~v.ok \/ v.next > Len(toks) THEN ParseFail
        ELSE IF toks[v.next] = COMMA
        THEN parseElements(toks, v.next + 1, Append(acc, v.value))
        ELSE IF toks[v.next] = RB
        THEN ParseOk(Arr(Append(acc, v.value)), v.next + 1)
        ELSE ParseFail

NotSpace(tok) == tok # SPACE

\* JSON.parse: the whole text is one value, white space between tokens aside
JSONparseTokens(toks) ==
    LET ts == SelectSeq(toks, NotSpace)
        v == parseValue(ts, 1)
    IN  IF v.ok /\ v.next = Len(ts) + 1
        THEN [threw |-> FALSE, value |-> v.value]
        ELSE [threw |-> TRUE, value |-> Arr(<<>>)]

\* let posts = []; const jsonMatch = content.match(..);
\* if (jsonMatch) { posts = JSON.parse(jsonMatch[0]); }
socialPosts(toks) ==
    IF match(toks) = NoMatch THEN [threw |-> FALSE, value |-> Arr(<<>>)]
    ELSE JSONparseTokens(match(toks))

RECURSIVE Show(_)
RECURSIVE ShowItems(_)

\* a value as the response body carries it
Show(v) ==
    CASE v.t = "string" -> v.s
      [] v.t = "array" -> "[" \o ShowItems(v.items) \o "]"
      [] OTHER -> "{content:" \o v.s \o ",hashtags:" \o Show(v.items[1]) \o "}"

ShowItems(items) ==
    IF items = <<>> THEN ""
    ELSE IF Len(items) = 1 THEN Show(items[1])
    ELSE Show(items[1]) \o "," \o ShowItems(Tail(items))

jsonMatch(text) == match(Tokens(text)) # NoMatch

\* JSON.parse(jsonMatch[0]): "throws", or the posts parsed
ParsedEmpty == "[]"

ParsedPosts == "[{content:hi,hashtags:[#a]}]"

ParseThrows == "SyntaxError"

JSONparse(text) ==
    LET p == JSONparseTokens(match(Tokens(text)))
    IN  IF p.threw THEN ParseThrows ELSE Show(p.value)

(***************************************************************************)
(* What one upstream call can come to.                                     *)
(*   transport  fetch rejects (network error)                              *)
(*   timeout    the 30 s abort fires (Inaia server only)                   *)
(*   status     a non-2xx response; shape is the shape of its body         *)
(*   malformed  a 2xx response whose body is not the chat-completion JSON  *)
(*   ok         a 2xx response carrying text                               *)
(***************************************************************************)
UpstreamStatuses == {429, 503}

\* the body of a non-2xx response: plain text, or {"error":{"message":..}}
ErrShapes == {"text", "json_error"}

Outcome(kind, code, shape, text) ==
    [kind |-> kind, code |-> code, shape |-> shape, text |-> text]

TextsFor(route) ==
    IF route = CONTENIDO THEN {EMPTY, BLANK, PROSE, BADSPAN, EMPTYARRAY, POSTS}
                         ELSE {EMPTY, BLANK, PROSE}

Outcomes(v, route) ==
    {Outcome("transport", 0, "text", EMPTY)}
    \cup {Outcome("status", c, sh, EMPTY) : c \in UpstreamStatuses, sh \in ErrShapes}
    \cup {Outcome("ok", 200, "text", t) : t \in TextsFor(route)}
    \cup (IF v = "inaia" THEN {Outcome("timeout", 0, "text", EMPTY)}
                         ELSE {Outcome("malformed", 200, "text", EMPTY)})

\* how the claims name an outcome: by its kind, a 2xx by its text
Class(o) == IF o.kind = "ok" THEN o.text ELSE o.kind

(***************************************************************************)
(* Responses.  details is where the text of the details field comes from:  *)
(* from = k > 0 when it is read off the failure of the k-th upstream call. *)
(***************************************************************************)
Detail(from, part) == [from |-> from, part |-> part]

NoDetail == Detail(0, "(absent)")

NoText == "(absent)"

Response(status, error, details, success, payload) ==
    [status |-> status, error |-> error, details |-> details,
     success |-> success, payload |-> payload]

NoResp == Response(0, NoText, NoDetail, FALSE, NoText)

\* JavaScript null in lastError
Null == [from |-> 0, shape |-> "null"]

LastError(from, shape) == [from |-> from, shape |-> shape]

(***************************************************************************)
(* Requests.  calls lists the models called upstream, in order; log the    *)
(* class of each call that has come back; count is the postCount handed to *)
(* buildContentPrompt (0: no prompt built); out is the handler's           *)
(* description or posts variable; ord is the request's place among those   *)
(* the limiter counted for its IP in the window.                           *)
(* The upstream call in progress: phase is "fetch" while the fetch promise *)
(* is pending, "body" while response.text() is, "idle" otherwise; reply is *)
(* the response whose headers have arrived; timer is the state of the      *)
(* timeout set by callInaiaAPI and elapsed the time since it was set.      *)
(* sent is the number of responses sent for the request.                   *)
(***************************************************************************)
NoReply == Outcome("none", 0, "text", EMPTY)

NoReq ==
    [pc |-> "free", ip |-> "-", origin |-> "-", route |-> "-", totalHits |-> 0,
     ord |-> 0, body |-> NoBody, count |-> 0, calls |-> <<>>, log |-> <<>>,
     lastError |-> Null, out |-> NoText, resp |-> NoResp,
     phase |-> "idle", reply |-> NoReply, timer |-> "none", elapsed |-> 0,
     sent |-> 0]

\* res.status(..).json(..): a response goes out; sent counts them
Respond(r, resp) == [r EXCEPT !.pc = "done", !.resp = resp, !.sent = @ + 1]

(***************************************************************************)
(* const count = Math.min(parseInt(postCount) || 5, 30)                    *)
(***************************************************************************)
DefaultPosts == 5

MaxPosts == 30

\* parseInt: NaN for undefined and for a string without leading digits
parseInt(x) == IF x.t = "int" THEN [nan |-> FALSE, n |-> x.n] ELSE [nan |-> TRUE, n |-> 0]

\* v || d : NaN and 0 are falsy
OrDefault(v, d) == IF v.nan \/ v.n = 0 THEN d ELSE v.n

MathMin(a, b) == IF a < b THEN a ELSE b

count(postCount) == MathMin(OrDefault(parseInt(postCount), DefaultPosts), MaxPosts)

(***************************************************************************)
(* try { errorJson = JSON.parse(x) } catch (e) { errorJson = {message: x} } *)
(* details: errorJson.error?.message || errorJson.message || x             *)
(* JSON.parse(null) gives null, and null.error throws a TypeError.          *)
(***************************************************************************)
errorDetails(x) ==
    CASE x.shape = "null" ->
           [threw |-> TRUE, details |-> Detail(0, "TypeError: Cannot read properties of null")]
      [] x.shape = "json_error" ->
           [threw |-> FALSE, details |-> Detail(x.from, "error.message")]
      [] OTHER ->
           [threw |-> FALSE, details |-> Detail(x.from, "text")]

\* the handlers' outer catch
InternalError(details) ==
    Response(500, "Error interno del servidor", details, FALSE, NoText)

Success(payload) == Response(200, NoText, NoDetail, TRUE, payload)

\* the details of a rejected fetch or of a response.json() that throws
ErrMessage(n) == Detail(n, "err.message")

(***************************************************************************)
(* The single-model OpenRouter server.                                     *)
(***************************************************************************)
OPENROUTER_MODEL == "google/gemma-7b-it:free"

\* if (!response.ok) { ... return res.status(response.status).json(...) }
OpenRouterError(r, o) ==
    LET d == errorDetails(LastError(Len(r.calls), o.shape))
    IN  IF d.threw THEN Respond(r, InternalError(d.details))
        ELSE Respond(r, Response(o.code, "Error de OpenRouter", d.details, FALSE, NoText))

PropiedadOpenRouter(r, o) ==
    CASE o.kind = "status" -> OpenRouterError(r, o)
      [] o.kind = "ok" -> Respond(r, Success(o.text))
      [] OTHER -> Respond(r, InternalError(ErrMessage(Len(r.calls))))

FallbackPosts == "templates.slice(0, count)"

\* the posts of the single-model content handler
OpenRouterPosts(text) ==
    IF ~jsonMatch(text) THEN ParsedEmpty
    ELSE IF JSONparse(text) = ParseThrows THEN FallbackPosts
    ELSE JSONparse(text)

ContenidoOpenRouter(r, o) ==
    CASE o.kind = "status" -> OpenRouterError(r, o)
      [] o.kind = "ok" -> Respond(r, Success(OpenRouterPosts(o.text)))
      [] OTHER -> Respond(r, InternalError(ErrMessage(Len(r.calls))))

(***************************************************************************)
(* The OpenRouter server with the model-list fallback loop.  One turn of   *)
(* for (const modelId of models) { try { ... } catch (err) { ... } }       *)
(* runs when the awaited fetch of candidate Len(r.calls) comes back.       *)
(***************************************************************************)
models ==
    << "meta-llama/llama-3.1-8b-instruct:free",
       "mistralai/mistral-7b-instruct:free",
       "google/gemma-7b-it:free",
       "meta-llama/llama-3-8b-instruct:free" >>

\* lastError after the turn: set by the else branch and by the catch only
LoopLastError(r, o) ==
    CASE o.kind = "status" -> LastError(Len(r.calls), o.shape)
      [] o.kind = "ok" -> r.lastError
      [] OTHER -> LastError(Len(r.calls), "text")

\* description = data.choices[0]?.message?.content || ''
LoopDescription(r, o) == IF o.kind = "ok" THEN o.text ELSE r.out

\* the loop without its break
PropiedadNeverBreaks(r, o) == FALSE

\* if (description) break;
PropiedadBreaks(r, o) == o.kind = "ok" /\ Truthy(LoopDescription(r, o))

\* posts = JSON.parse(jsonMatch[0]) is reached only when content is truthy and
\* matches, and assigns only when the parse does not throw
LoopPosts(r, o) ==
    IF o.kind = "ok" /\ Truthy(o.text) /\ jsonMatch(o.text)
        /\ JSONparse(o.text) # ParseThrows
    THEN JSONparse(o.text) ELSE r.out

\* if (posts.length > 0) break;
ContenidoBreaks(r, o) ==
    /\ o.kind = "ok" /\ Truthy(o.text) /\ jsonMatch(o.text)
    /\ JSONparse(o.text) # ParseThrows
    /\ LoopPosts(r, o) # ParsedEmpty

\* after the loop: if (!description) / if (posts.length === 0)
Exhausted(r) ==
    LET d == errorDetails(r.lastError)
    IN  IF d.threw THEN Respond(r, InternalError(d.details))
        ELSE Respond(r, Response(500, "Error de IA (Agotado)", d.details, FALSE, NoText))

\* the exhaustion branch without its return
AfterLoopFallsThrough(r) ==
    IF \/ r.route = PROPIEDAD /\ ~Truthy(r.out)
       \/ r.route = CONTENIDO /\ r.out = ParsedEmpty
    THEN Respond(Exhausted(r), Success(r.out)) ELSE Respond(r, Success(r.out))

AfterLoop(r) ==
    IF \/ r.route = PROPIEDAD /\ ~Truthy(r.out)
       \/ r.route = CONTENIDO /\ r.out = ParsedEmpty
    THEN Exhausted(r) ELSE Respond(r, Success(r.out))

FallbackTurn(r, o, out, breaks) ==
    LET r1 == [r EXCEPT !.lastError = LoopLastError(r, o), !.out = out]
    IN  IF breaks \/ Len(r.calls) = Len(models) THEN AfterLoop(r1)
        ELSE [r1 EXCEPT !.calls = Append(@, models[Len(r.calls) + 1])]

PropiedadFallback(r, o) ==
    FallbackTurn(r, o, LoopDescription(r, o), PropiedadBreaks(r, o))

ContenidoFallback(r, o) ==
    FallbackTurn(r, o, LoopPosts(r, o), ContenidoBreaks(r, o))

(***************************************************************************)
(* The Inaia server.                                                       *)
(***************************************************************************)
Threw(message) == [threw |-> TRUE, message |-> message, text |-> EMPTY]

Returned(text) == [threw |-> FALSE, message |-> NoText, text |-> text]

TimeoutMessage == "Timeout: Inaia API no respondió en 30 segundos"

StatusMessage == "Inaia API error (status): errorText"

EmptyMessage == "Inaia returned empty response"

\* setTimeout(() => controller.abort(), 30000)
timeoutMs == 30000

TickMs == timeoutMs \div MaxTicks

\* the catch without its AbortError branch: the abort's own error is rethrown
callInaiaAPIRethrows(o) ==
    CASE o.kind = "timeout" -> Threw("This operation was aborted")
      [] o.kind = "transport" -> Threw("err.message")
      [] o.kind = "status" -> Threw(StatusMessage)
      [] o.kind = "ok" /\ (~Truthy(o.text) \/ Trim(o.text) = EMPTY) -> Threw(EmptyMessage)
      [] OTHER -> Returned(o.text)

callInaiaAPI(o) ==
    CASE o.kind = "timeout" -> Threw(TimeoutMessage)
      [] o.kind = "transport" -> Threw("err.message")
      [] o.kind = "status" -> Threw(StatusMessage)
      [] o.kind = "ok" /\ (~Truthy(o.text) \/ Trim(o.text) = EMPTY) -> Threw(EmptyMessage)
      [] OTHER -> Returned(o.text)

PropiedadInaia(r, o) ==
    LET c == callInaiaAPI(o)
    IN  IF c.threw THEN Respond(r, InternalError(Detail(Len(r.calls), c.message)))
        ELSE IF ~Truthy(c.text) \/ Trim(c.text) = EMPTY
        THEN Respond(r, Response(500, "Error de IA: Inaia no retornó una respuesta válida",
                                 Detail(0, "La respuesta está vacía"), FALSE, NoText))
        ELSE Respond(r, Success(c.text))

ContenidoInaia(r, o) ==
    LET c == callInaiaAPI(o)
        parsed == IF jsonMatch(c.text) THEN JSONparse(c.text) ELSE ParsedEmpty
    IN  IF c.threw THEN Respond(r, InternalError(Detail(Len(r.calls), c.message)))
        ELSE IF parsed = ParseThrows
        THEN Respond(r, Response(500, "Error parseando respuesta de IA",
                                 Detail(Len(r.calls), "e.message"), FALSE, NoText))
        ELSE IF parsed = ParsedEmpty
        THEN Respond(r, Response(500, "Error de IA: No se generaron posts válidos",
                                 Detail(0, "La respuesta no contiene un array JSON válido"),
                                 FALSE, NoText))
        ELSE Respond(r, Success(parsed))

(***************************************************************************)
(* The middleware chain.                                                   *)
(***************************************************************************)
Slots == 1 .. MaxInFlight

Zero == [ip \in IPs |-> 0]

(***************************************************************************)
(* The prompt builders.  A field of the request body is undefined, a       *)
(* string, or an object; Unprintable is one whose toString is not a        *)
(* function, {"toString": 1}, which cannot be turned into a string or a    *)
(* property key.                                                           *)
(***************************************************************************)
Missing == [t |-> "undefined", s |-> ""]

Text(str) == [t |-> "string", s |-> str]

Unprintable == [t |-> "object", s |-> "{toString: 1}"]

FieldValues ==
    {Missing, Text("profesional"), Text("twitter"), Text("vintage"),
     Text("constructor"), Unprintable}

styleDescriptions ==
    [profesional |-> "formal y profesional",
     emocional |-> "emotivo y que conecte con el comprador",
     minimalista |-> "conciso y elegante",
     detallado |-> "muy detallado y exhaustivo"]

toneDescriptions ==
    [profesional |-> "formal y profesional, enfocado en expertise",
     cercano |-> "amigable y cercano, como un amigo",
     inspiracional |-> "motivador e inspiracional",
     humoristico |-> "con humor ligero y entretenido",
     educativo |-> "informativo y educativo"]

networkFormats ==
    [instagram |-> "posts visuales con 3-5 hashtags, máximo 150 palabras",
     facebook |-> "posts conversacionales, 1-3 hashtags",
     linkedin |-> "contenido profesional y de valor",
     twitter |-> "tweets de máximo 280 caracteres",
     tiktok |-> "descripciones cortas y llamativas"]

\* what every object literal inherits from Object.prototype, as a template
\* literal prints it
Inherited ==
    [constructor |-> "function Object() { [native code] }",
     toString |-> "function toString() { [native code] }"]

\* table[field]: the key is the field as a string; own keys first, then the
\* prototype's; "" stands for undefined
Lookup(table, field) ==
    CASE field.t = "object" -> [threw |-> TRUE, value |-> ""]
      [] field.t = "string" /\ field.s \in DOMAIN table ->
           [threw |-> FALSE, value |-> table[field.s]]
      [] field.t = "string" /\ field.s \in DOMAIN Inherited ->
           [threw |-> FALSE, value |-> Inherited[field.s]]
      [] OTHER -> [threw |-> FALSE, value |-> ""]

\* a || b on strings
OrElse(a, b) == IF a # "" THEN a ELSE b

Prompt(fn, threw, style, tone, network) ==
    [fn |-> fn, threw |-> threw, style |-> style, tone |-> tone, network |-> network]

NoPrompt == Prompt("none", FALSE, "", "", "")

NoData == [style |-> Missing, tone |-> Missing, network |-> Missing]

\* Estilo de escritura: ${styleDescriptions[style] || 'profesional'}
buildPropertyPrompt(d) ==
    LET st == Lookup(styleDescriptions, d.style)
    IN  IF st.threw THEN Prompt("buildPropertyPrompt", TRUE, "", "", "")
        ELSE Prompt("buildPropertyPrompt", FALSE, OrElse(st.value, "profesional"), "", "")

\* Tono: ${toneDescriptions[tone] || toneDescriptions.profesional}
\* Red social: ${network} (${networkFormats[network] || networkFormats.instagram})
buildContentPrompt(d) ==
    LET tn == Lookup(toneDescriptions, d.tone)
        nw == Lookup(networkFormats, d.network)
    IN  IF tn.threw \/ nw.threw THEN Prompt("buildContentPrompt", TRUE, "", "", "")
        ELSE Prompt("buildContentPrompt", FALSE, "",
                    OrElse(tn.value, toneDescriptions.profesional),
                    OrElse(nw.value, networkFormats.instagram))

\* the parser and the prompt builders not called
NotParsed == [threw |-> FALSE, value |-> Str("(not parsed)")]

InitWith(vs, keys, n) ==
    /\ variant \in vs
    /\ hits = Zero
    /\ req = [s \in Slots |-> NoReq]
    /\ toSend = n
    /\ seen = Zero
    /\ admitted = Zero
    /\ proc = "starting"
    /\ apiKey \in keys
    /\ content = <<>>
    /\ posts = NotParsed
    /\ data = NoData
    /\ prompt = NoPrompt

Init == InitWith(Variants, BOOLEAN, MaxRequests)

\* the servers that read OPENROUTER_API_KEY; the Inaia server reads no key
KeyRequired(v) == v # "inaia"

\* the module body from top to bottom: if (!API_KEY) process.exit(1), and at
\* the end app.listen(PORT)
AfterLoad(v, key) == IF KeyRequired(v) /\ ~key THEN "exited" ELSE "listening"

Boot ==
    /\ proc = "starting"
    /\ proc' = AfterLoad(variant, apiKey)
    /\ UNCHANGED <<apiKey, helpers, variant, hits, req, toSend, seen, admitted>>

\* what clients send: any request (Spec); a burst on the property endpoint,
\* some of it from a foreign page (SpecBurst); health checks at the same time
\* from one address (SpecConc)
Traffic == [ip : IPs, origin : Origins, route : Routes]

BurstTraffic == [ip : IPs, origin : {NoOrigin, "https://evil.example"}, route : {PROPIEDAD}]

ConcTraffic == [ip : {"10.0.0.1"}, origin : {NoOrigin}, route : {HEALTH}]

\* a client sends a request
Arrive(s, T) ==
    /\ proc = "listening"
    /\ req[s].pc = "free"
    /\ toSend > 0
    /\ \E t \in T :
          req' = [req EXCEPT ![s] = [NoReq EXCEPT !.pc = "cors", !.ip = t.ip,
                                                  !.origin = t.origin, !.route = t.route]]
    /\ toSend' = toSend - 1
    /\ UNCHANGED <<startup, helpers, variant, hits, seen, admitted>>

\* origin: true
AnyOrigin(origin) == TRUE

\* origin: function (origin, callback)
OriginAllowed(origin) == origin = NoOrigin \/ origin \in allowedOrigins

\* callback(new Error(...)) goes to the error handler: the global one of the
\* Inaia and fallback servers, Express's own in the single-model server
CorsError(v, origin) ==
    IF v = "openrouter"
    THEN Response(500, "(html) Error: No permitido por CORS", NoDetail, FALSE, NoText)
    ELSE Response(500, "No permitido por CORS: " \o origin, Detail(0, "null"), FALSE, NoText)

CorsCheck(s) ==
    /\ req[s].pc = "cors"
    /\ req' = [req EXCEPT ![s] =
                 IF OriginAllowed(@.origin)
                 THEN [@ EXCEPT !.pc = IF IsApiPath(req[s].route) THEN "limiter" ELSE "route"]
                 ELSE Respond(@, CorsError(variant, @.origin))]
    /\ UNCHANGED <<startup, helpers, variant, hits, toSend, seen, admitted>>

\* a store that stops counting at max
StoreSaturates(h, ip) == [h EXCEPT ![ip] = IF @ >= max THEN @ ELSE @ + 1]

\* the store's increment(key): one more hit for the key, the new total returned
StoreIncrement(h, ip) == [h EXCEPT ![ip] = @ + 1]

LimiterIncrement(s) ==
    /\ req[s].pc = "limiter"
    /\ hits' = StoreIncrement(hits, req[s].ip)
    /\ seen' = [seen EXCEPT ![req[s].ip] = @ + 1]
    /\ req' = [req EXCEPT ![s] = [@ EXCEPT !.pc = "counted",
                                           !.totalHits = hits'[req[s].ip],
                                           !.ord = seen'[req[s].ip]]]
    /\ UNCHANGED <<startup, helpers, variant, toSend, admitted>>

\* the comparison off by one
LimitReached(totalHits) == totalHits >= max

\* totalHits > max
LimitExceeded(totalHits) == totalHits > max

TooManyRequests == Response(429, rateLimitMessage, NoDetail, FALSE, NoText)

LimiterDecide(s) ==
    /\ req[s].pc = "counted"
    /\ IF LimitExceeded(req[s].totalHits)
       THEN /\ req' = [req EXCEPT ![s] = Respond(@, TooManyRequests)]
            /\ UNCHANGED admitted
       ELSE /\ req' = [req EXCEPT ![s] = [@ EXCEPT !.pc = "route"]]
            /\ admitted' = [admitted EXCEPT ![req[s].ip] = @ + 1]
    /\ UNCHANGED <<startup, helpers, variant, hits, toSend, seen>>

\* windowMs has passed for the key: its count starts again.  The store runs
\* between requests' callbacks, never between a request's increment and its
\* own comparison.
WindowReset(ip) ==
    /\ hits[ip] > 0
    /\ \A s \in Slots : ~(req[s].pc = "counted" /\ req[s].ip = ip)
    /\ hits' = [hits EXCEPT ![ip] = 0]
    /\ seen' = [seen EXCEPT ![ip] = 0]
    /\ admitted' = [admitted EXCEPT ![ip] = 0]
    /\ UNCHANGED <<startup, helpers, variant, req, toSend>>

(***************************************************************************)
(* Routes.                                                                 *)
(***************************************************************************)
Health(s) ==
    /\ req[s].pc = "route"
    /\ req[s].route = HEALTH
    /\ req' = [req EXCEPT ![s] = Respond(@, Response(200, NoText, NoDetail, FALSE, "status: ok"))]
    /\ UNCHANGED <<startup, helpers, variant, hits, toSend, seen, admitted>>

\* app.use((req, res) => res.status(404).json(...)); the single-model server
\* has no such handler and Express answers
NotFoundResponse(v, route) ==
    IF v = "openrouter"
    THEN Response(404, "(html) Cannot " \o route, NoDetail, FALSE, NoText)
    ELSE Response(404, "Ruta no encontrada", NoDetail, FALSE, route)

NotFound(s) ==
    /\ req[s].pc = "route"
    /\ req[s].route \in {UNKNOWN_API, OUTSIDE_API}
    /\ req' = [req EXCEPT ![s] = Respond(@, NotFoundResponse(variant, @.route))]
    /\ UNCHANGED <<startup, helpers, variant, hits, toSend, seen, admitted>>

BadRequest(error) == Response(400, error, NoDetail, FALSE, NoText)

\* the validation with location forgotten
InvalidForgetsLocation(route, body) ==
    IF route = PROPIEDAD THEN ~body.propertyType ELSE ~body.businessType

\* if (!propertyType || !location) / if (!businessType)
Invalid(route, body) ==
    IF route = PROPIEDAD THEN ~body.propertyType \/ ~body.location
    ELSE ~body.businessType

ValidationError(route) ==
    IF route = PROPIEDAD THEN "Faltan campos requeridos (propertyType, location)"
    ELSE "Falta el tipo de negocio (businessType)"

FirstModel(v, route) ==
    CASE v = "openrouter" -> OPENROUTER_MODEL
      [] v = "fallback" -> models[1]
      [] v = "inaia" /\ route = PROPIEDAD -> "kimi"
      [] OTHER -> "reasoning"

\* the handler up to its first await: validation, the prompt, the first call
StartGenerate(v, r, body) ==
    IF Invalid(r.route, body)
    THEN Respond([r EXCEPT !.body = body], BadRequest(ValidationError(r.route)))
    ELSE [r EXCEPT !.pc = "calling",
                   !.body = body,
                   !.count = IF r.route = CONTENIDO THEN count(body.postCount) ELSE 0,
                   !.out = IF r.route = CONTENIDO THEN ParsedEmpty ELSE EMPTY,
                   !.calls = <<FirstModel(v, r.route)>>,
                   !.phase = "fetch",
                   !.timer = IF v = "inaia" THEN "pending" ELSE "none"]

Generate(s) ==
    /\ req[s].pc = "route"
    /\ req[s].route \in {PROPIEDAD, CONTENIDO}
    /\ \E body \in BodiesFor(req[s].route) :
          req' = [req EXCEPT ![s] = StartGenerate(variant, @, body)]
    /\ UNCHANGED <<startup, helpers, variant, hits, toSend, seen, admitted>>

\* the handler from the await that came back to its next await or its response
Resume(v, r, o) ==
    CASE v = "openrouter" /\ r.route = PROPIEDAD -> PropiedadOpenRouter(r, o)
      [] v = "openrouter" /\ r.route = CONTENIDO -> ContenidoOpenRouter(r, o)
      [] v = "fallback" /\ r.route = PROPIEDAD -> PropiedadFallback(r, o)
      [] v = "fallback" /\ r.route = CONTENIDO -> ContenidoFallback(r, o)
      [] v = "inaia" /\ r.route = PROPIEDAD -> PropiedadInaia(r, o)
      [] OTHER -> ContenidoInaia(r, o)

\* the handler resumed with o; a loop that goes on has its next fetch pending
Settle(v, r, o) ==
    LET x == Resume(v, [r EXCEPT !.log = Append(@, Class(o)), !.reply = NoReply], o)
    IN  [x EXCEPT !.phase = IF x.pc = "done" THEN "idle" ELSE "fetch"]

\* what can end the pending await.  In callInaiaAPI the fetch promise rejects
\* on a network error, and response.text() gives the body of the response
\* whose headers arrived (or rejects); the abort is TimerFires.  The OpenRouter
\* handlers set no timer: the reply is taken whole.
Delivers(v, r, o) ==
    IF v = "inaia"
    THEN \/ r.phase = "fetch" /\ o.kind = "transport"
         \/ r.phase = "body" /\ (o = r.reply \/ o.kind = "transport")
    ELSE TRUE

UpstreamReply(s) ==
    /\ req[s].pc = "calling"
    /\ \E o \in Outcomes(variant, req[s].route) :
          /\ Delivers(variant, req[s], o)
          /\ req' = [req EXCEPT ![s] = Settle(variant, @, o)]
    /\ UNCHANGED <<startup, helpers, variant, hits, toSend, seen, admitted>>

\* const response = await fetch(...) resolves: the headers of a response have
\* arrived; clearTimeout(timeoutId)
FetchResolves(s) ==
    /\ variant = "inaia"
    /\ req[s].pc = "calling"
    /\ req[s].phase = "fetch"
    /\ \E o \in Outcomes(variant, req[s].route) :
          /\ o.kind \in {"status", "ok"}
          /\ req' = [req EXCEPT ![s] = [@ EXCEPT !.phase = "body", !.reply = o,
                                                 !.timer = "cleared"]]
    /\ UNCHANGED <<startup, helpers, variant, hits, toSend, seen, admitted>>

\* time passes for a pending timer, up to its deadline
Tick(s) ==
    /\ req[s].timer = "pending"
    /\ req[s].elapsed + TickMs <= timeoutMs
    /\ req' = [req EXCEPT ![s] = [@ EXCEPT !.elapsed = @ + TickMs]]
    /\ UNCHANGED <<startup, helpers, variant, hits, toSend, seen, admitted>>

\* the timer's callback: controller.abort().  A fetch still pending rejects
\* with an AbortError; on a fetch already settled the abort does nothing.
TimerFires(s) ==
    /\ req[s].timer = "pending"
    /\ req[s].elapsed >= timeoutMs
    /\ req' = [req EXCEPT ![s] =
                 IF @.pc = "calling" /\ @.phase = "fetch"
                 THEN Settle(variant, [@ EXCEPT !.timer = "fired"],
                             Outcome("timeout", 0, "text", EMPTY))
                 ELSE [@ EXCEPT !.timer = "fired"]]
    /\ UNCHANGED <<startup, helpers, variant, hits, toSend, seen, admitted>>

\* the response has gone out; the request's objects are dropped
Release(s) ==
    /\ req[s].pc = "done"
    /\ req' = [req EXCEPT ![s] = NoReq]
    /\ UNCHANGED <<startup, helpers, variant, hits, toSend, seen, admitted>>

Next ==
    \/ Boot
    \/ Arrive(1, Traffic)
    \/ CorsCheck(1)
    \/ LimiterIncrement(1)
    \/ LimiterDecide(1)
    \/ Health(1)
    \/ NotFound(1)
    \/ Generate(1)
    \/ UpstreamReply(1)
    \/ FetchResolves(1)
    \/ Tick(1)
    \/ TimerFires(1)
    \/ Release(1)
    \/ \E ip \in IPs : WindowReset(ip)

Spec == Init /\ [][Next]_vars

\* The Inaia server with what its runtime guarantees: time passes for a
\* pending timer and a timer that is due fires.  Nothing obliges the upstream
\* to answer, to fail, or to finish a body it has begun.
InitLive == InitWith({"inaia"}, {TRUE}, MaxRequests)

SpecLive ==
    /\ InitLive
    /\ [][Next]_vars
    /\ WF_vars(Tick(1))
    /\ WF_vars(TimerFires(1))

InitBurst == InitWith(Variants, {TRUE}, max + MaxOver)

NextBurst ==
    \/ Boot
    \/ Arrive(1, BurstTraffic)
    \/ CorsCheck(1)
    \/ LimiterIncrement(1)
    \/ LimiterDecide(1)
    \/ Generate(1)
    \/ UpstreamReply(1)
    \/ FetchResolves(1)
    \/ Tick(1)
    \/ TimerFires(1)
    \/ Release(1)
    \/ \E ip \in IPs : WindowReset(ip)

SpecBurst == InitBurst /\ [][NextBurst]_vars

InitConc == InitWith(Variants, {TRUE}, max + MaxOver)

NextConc ==
    \/ Boot
    \/ \E s \in Slots :
          \/ Arrive(s, ConcTraffic)
          \/ CorsCheck(s)
          \/ LimiterIncrement(s)
          \/ LimiterDecide(s)
          \/ Health(s)
          \/ Release(s)
    \/ \E ip \in IPs : WindowReset(ip)

SpecConc == InitConc /\ [][NextConc]_vars

(***************************************************************************)
(* The post parser taken alone, on texts made of prose, a bracketed span   *)
(* and prose.                                                              *)
(***************************************************************************)
SeqsUpTo(S, n) == UNION {[1 .. k -> S] : k \in 0 .. n}

OnePost == <<LB, OPEN, LB, TAG, RB, CLOSE, RB>>

TwoPosts ==
    <<LB, OPEN, LB, TAG, RB, CLOSE, COMMA, SPACE, OPEN, LB, TAG, COMMA, TAG, RB, CLOSE, RB>>

Middles ==
    {<<>>, <<LB, RB>>, OnePost, TwoPosts, <<LB, WORD, COMMA, WORD, RB>>,
     <<LB, OPEN, LB, TAG, RB, RB>>, <<LB, TAG, COMMA, RB>>}

ParserInputs ==
    {b \o m \o a : b \in SeqsUpTo({WORD, SPACE, LB, RB}, MaxProse),
                   m \in Middles,
                   a \in SeqsUpTo({WORD, SPACE, LB, RB}, MaxProse)}

InitParse ==
    /\ variant = "inaia"
    /\ hits = Zero
    /\ req = [s \in Slots |-> NoReq]
    /\ toSend = 0
    /\ seen = Zero
    /\ admitted = Zero
    /\ proc = "listening"
    /\ apiKey = TRUE
    /\ content \in ParserInputs
    /\ posts = NotParsed
    /\ data = NoData
    /\ prompt = NoPrompt

ParseContent ==
    /\ posts = NotParsed
    /\ posts' = socialPosts(content)
    /\ UNCHANGED <<startup, content, data, prompt, variant, hits, req, toSend, seen, admitted>>

NextParse == ParseContent

SpecParse == InitParse /\ [][NextParse]_vars

(***************************************************************************)
(* The prompt builders taken alone.                                        *)
(***************************************************************************)
InitPrompt ==
    /\ variant = "inaia"
    /\ hits = Zero
    /\ req = [s \in Slots |-> NoReq]
    /\ toSend = 0
    /\ seen = Zero
    /\ admitted = Zero
    /\ proc = "listening"
    /\ apiKey = TRUE
    /\ content = <<>>
    /\ posts = NotParsed
    /\ data \in [style : FieldValues, tone : FieldValues, network : FieldValues]
    /\ prompt = NoPrompt

BuildProperty ==
    /\ prompt = NoPrompt
    /\ prompt' = buildPropertyPrompt(data)
    /\ UNCHANGED <<startup, content, posts, data, variant, hits, req, toSend, seen, admitted>>

BuildContent ==
    /\ prompt = NoPrompt
    /\ prompt' = buildContentPrompt(data)
    /\ UNCHANGED <<startup, content, posts, data, variant, hits, req, toSend, seen, admitted>>

NextPrompt == BuildProperty \/ BuildContent

SpecPrompt == InitPrompt /\ [][NextPrompt]_vars

(***************************************************************************)
(* Properties.                                                             *)
(***************************************************************************)
GenerateRoutes == {PROPIEDAD, CONTENIDO}

\* a candidate's reply that yields no usable output / usable output
Failed(route, class) ==
    IF route = PROPIEDAD THEN class \in {"transport", "status", "malformed", EMPTY}
    ELSE class # POSTS

Succeeded(route, class) ==
    IF route = PROPIEDAD THEN class = PROSE ELSE class = POSTS

IsPrefix(a, b) == Len(a) <= Len(b) /\ \A i \in 1 .. Len(a) : a[i] = b[i]

\* C1: in the fallback loop the candidates are called one at a time in the
\* order of the list; when candidates 1..k-1 failed and candidate k gave usable
\* output the response is 200 success and exactly k calls were made, to
\* candidates 1..k; nothing is called after a success.
C1_OrderedFirstSuccess ==
    variant = "fallback" =>
      \A s \in Slots :
        LET r == req[s]
        IN  /\ IsPrefix(r.calls, models)
            /\ Len(r.log) <= Len(r.calls) /\ Len(r.calls) <= Len(r.log) + 1
            /\ \A k \in 1 .. Len(r.log) :
                 (/\ \A i \in 1 .. k - 1 : Failed(r.route, r.log[i])
                  /\ Succeeded(r.route, r.log[k]))
                 => /\ r.pc = "done"
                    /\ r.resp.status = 200
                    /\ r.resp.success
                    /\ Len(r.calls) = k

\* the three failure kinds in order, then the fourth candidate succeeds
C1_Witness ==
    \E s \in Slots :
      /\ variant = "fallback"
      /\ req[s].route = PROPIEDAD
      /\ req[s].log = <<"transport", "status", EMPTY, PROSE>>
      /\ req[s].calls = models
      /\ req[s].resp.status = 200

\* C2: when every candidate of the fallback loop fails the response is 500 and
\* its details come from the failure of the last candidate, whatever its kind.
C2_DetailsFromLastFailure ==
    variant = "fallback" =>
      \A s \in Slots :
        LET r == req[s]
        IN  (/\ r.pc = "done"
             /\ Len(r.log) = Len(models)
             /\ \A i \in 1 .. Len(r.log) : Failed(r.route, r.log[i]))
            => /\ r.resp.status = 500
               /\ r.resp.details.from = Len(models)

\* C3: a property request with propertyType and location gets 200 with a
\* non-empty description or 500 with error and details.
C3_DescriptionOr500 ==
    \A s \in Slots :
      LET r == req[s]
      IN  (/\ r.pc = "done"
           /\ r.route = PROPIEDAD
           /\ r.body.parsed /\ r.body.propertyType /\ r.body.location)
          => \/ /\ r.resp.status = 200
                /\ r.resp.success
                /\ r.resp.payload \notin {EMPTY, NoText}
             \/ /\ r.resp.status = 500
                /\ r.resp.error # NoText
                /\ r.resp.details # NoDetail

\* the fields a 400 message names
FieldsNamed(error) ==
    CASE error = "Faltan campos requeridos (propertyType, location)" ->
           {"propertyType", "location"}
      [] error = "Falta el tipo de negocio (businessType)" -> {"businessType"}
      [] OTHER -> {}

MissingFields(route, body) ==
    IF route = PROPIEDAD
    THEN (IF body.propertyType THEN {} ELSE {"propertyType"})
         \cup (IF body.location THEN {} ELSE {"location"})
    ELSE (IF body.businessType THEN {} ELSE {"businessType"})

\* C4: a generate request missing a required field is answered 400 with an
\* error naming the missing field(s), and no upstream call is made for it.
C4_MissingField400 ==
    \A s \in Slots :
      LET r == req[s]
      IN  (/\ r.route \in GenerateRoutes
           /\ r.body.parsed
           /\ MissingFields(r.route, r.body) # {})
          => /\ r.pc = "done"
             /\ r.resp.status = 400
             /\ MissingFields(r.route, r.body) \subseteq FieldsNamed(r.resp.error)
             /\ r.calls = <<>>

C4_Witness ==
    \E s \in Slots :
      /\ req[s].route = PROPIEDAD
      /\ req[s].body.parsed /\ req[s].body.propertyType /\ ~req[s].body.location
      /\ req[s].resp.status = 400

CorsMessages ==
    {"(html) Error: No permitido por CORS"}
    \cup {"No permitido por CORS: " \o o : o \in Origins}

\* answered by the error handler for the cross-origin error, nothing else done
CorsRejected(r) ==
    /\ r.pc = "done"
    /\ r.resp.status = 500
    /\ r.resp.error \in CorsMessages
    /\ r.totalHits = 0 /\ r.ord = 0
    /\ ~r.body.parsed
    /\ r.calls = <<>>

\* answered 429 by the limiter with the configured body, nothing else done
Limited(r) ==
    /\ r.pc = "done"
    /\ r.resp.status = 429
    /\ r.resp.error = "Demasiadas solicitudes. Por favor espera un momento."
    /\ ~r.body.parsed
    /\ r.calls = <<>>

\* passed on by the limiter to the routes (the single-model server's handler
\* may itself relay a 429 of the upstream)
PassedOn(r) ==
    /\ r.pc \in {"route", "calling", "done"}
    /\ r.resp.error # "Demasiadas solicitudes. Por favor espera un momento."

\* C5 as stated: every request on an /api/ path is, once the limiter has dealt
\* with the requests before it, among the first 10 of its IP in the window and
\* passed on by the limiter, or answered 429 without reaching a handler.
C5_FirstTenOfAll ==
    \A s \in Slots :
      LET r == req[s]
      IN  (r.pc = "done" /\ IsApiPath(r.route))
          => \/ r.ord \in 1 .. max /\ PassedOn(r)
             \/ Limited(r)

\* C5 amended: of the requests on /api/ paths from one IP in one window that
\* pass the cross-origin check, the first 10 are passed on by the limiter and
\* every later one is answered 429 with the configured body and reaches neither
\* a handler nor the upstream; a request the cross-origin check rejects is
\* neither counted nor answered by the limiter.
C5_FirstTenPastCors ==
    \A s \in Slots :
      LET r == req[s]
      IN  (r.pc \in {"route", "calling", "done"} /\ IsApiPath(r.route))
          => IF r.origin = NoOrigin \/ r.origin \in allowedOrigins
             THEN /\ r.ord >= 1
                  /\ IF r.ord <= max THEN PassedOn(r) ELSE Limited(r)
             ELSE CorsRejected(r)

\* the eleventh request of an IP in a window to pass the cross-origin check
C5_Witness ==
    \E s \in Slots :
      /\ req[s].ord = max + 1
      /\ req[s].origin = NoOrigin
      /\ Limited(req[s])

\* C6: however the requests of one IP interleave, no more than 10 of those
\* counted in one window are admitted by the limiter.
C6_AtMostTenAdmitted ==
    \A ip \in IPs : admitted[ip] <= max

\* two requests in the limiter at once around the tenth admission: one is
\* admitted as the tenth, the other answered 429
C6_Witness ==
    \E s, t \in Slots :
      /\ s # t
      /\ req[s].ip = req[t].ip
      /\ req[s].pc = "route" /\ req[s].totalHits = max
      /\ req[t].pc = "done" /\ req[t].resp.status = 429
      /\ admitted[req[s].ip] = max

\* C7: a request whose Origin is not allow-listed is rejected by the
\* cross-origin check before the limiter and any handler and without an
\* upstream call; one with no Origin or an allow-listed one is not rejected by
\* the check and goes on down the chain.
C7_CorsGate ==
    \A s \in Slots :
      LET r == req[s]
      IN  r.pc \notin {"free", "cors"}
          => IF r.origin = NoOrigin \/ r.origin \in allowedOrigins
             THEN /\ ~CorsRejected(r)
                  /\ r.pc \in {"limiter", "counted", "route", "calling", "done"}
                  /\ r.pc = "done" => r.resp.error \notin CorsMessages
             ELSE CorsRejected(r)

C7_Witness ==
    \E s \in Slots :
      /\ req[s].origin = "https://evil.example"
      /\ req[s].route \in GenerateRoutes
      /\ CorsRejected(req[s])

\* the count the specification gives for a postCount
ClampedCount(x) ==
    IF x.t # "int" \/ x.n <= 0 THEN 5
    ELSE IF x.n > 30 THEN 30
    ELSE x.n

\* C8: the count in the prompt sent upstream is in 1..30: 5 for an absent,
\* non-numeric, zero or negative postCount, 30 for one above 30, n for n in 1..30.
C8_CountClamped ==
    \A s \in Slots :
      LET r == req[s]
      IN  (r.route = CONTENIDO /\ r.calls # <<>>)
          => /\ r.count \in 1 .. 30
             /\ r.count = ClampedCount(r.body.postCount)

\* C9: empty or whitespace-only upstream text is a failure though the call
\* returned 2xx: callInaiaAPI throws the empty-response error, and the fallback
\* loop goes on to the next candidate instead of ending with success.
C9_EmptyIsFailure ==
    \A s \in Slots :
      LET r == req[s]
          n == Len(r.log)
      IN  (n > 0 /\ r.log[n] \in {EMPTY, BLANK})
          => /\ variant = "inaia"
                => /\ r.pc = "done"
                   /\ r.resp.status = 500
                   /\ r.resp.details.part = "Inaia returned empty response"
             /\ variant = "fallback"
                => /\ ~r.resp.success
                   /\ n < Len(models) => Len(r.calls) = n + 1

\* the upstream call failed: in the fallback server, every candidate did
UpstreamFailed(v, r) ==
    /\ r.pc = "done"
    /\ r.log # <<>>
    /\ \A i \in 1 .. Len(r.log) :
         r.log[i] \in {"transport", "timeout", "status", EMPTY}
    /\ v = "fallback" => Len(r.log) = Len(models)

\* C10: in the generate handlers every failure of the upstream call (transport
\* error, timeout, non-2xx status, empty output) gives the client a 500 whose
\* JSON body carries error and details.
C10_UpstreamFailure500 ==
    \A s \in Slots :
      UpstreamFailed(variant, req[s])
      => /\ req[s].resp.status = 500
         /\ req[s].resp.error # NoText
         /\ req[s].resp.details # NoDetail

\* the last reply the content handler got carried text that yields no posts:
\* no bracketed span, a span that is not JSON, or an empty array
NoPostsText(r) ==
    /\ r.route = CONTENIDO
    /\ r.log # <<>>
    /\ r.log[Len(r.log)] \in {PROSE, BADSPAN, EMPTYARRAY}

\* C11: when the text for a content request has no bracketed span, or the span
\* does not parse, or it parses to an empty array, and no candidate remains,
\* the content endpoint answers 500 with error and details, never 200 success.
C11_NoPosts500 ==
    \A s \in Slots :
      LET r == req[s]
      IN  (/\ r.pc = "done"
           /\ NoPostsText(r)
           /\ variant = "fallback" => Len(r.log) = Len(models))
          => /\ r.resp.status = 500
             /\ ~r.resp.success
             /\ r.resp.error # NoText
             /\ r.resp.details # NoDetail

\* C12: in callInaiaAPI, when 30,000 ms have passed since the call started and
\* no response has arrived, the fetch is aborted and the call fails with the
\* timeout error, which is not the error of a non-2xx status; the handler
\* answers 500.  The abort happens at the deadline, never before.
C12_TimeoutAt30s ==
    /\ [](\A s \in Slots :
            LET r == req[s]
                n == Len(r.log)
            IN  variant = "inaia" =>
                  /\ (r.pc = "calling" /\ r.phase = "fetch") => r.elapsed <= 30000
                  /\ (n > 0 /\ r.log[n] = "timeout")
                     => /\ r.elapsed = 30000
                        /\ r.timer = "fired"
                        /\ r.pc = "done"
                        /\ r.resp.status = 500
                        /\ r.resp.details.part = "Timeout: Inaia API no respondió en 30 segundos"
                  /\ (n > 0 /\ r.log[n] = "status")
                     => /\ r.resp.status = 500
                        /\ r.resp.details.part # "Timeout: Inaia API no respondió en 30 segundos")
    /\ [][\A s \in Slots :
            (/\ variant = "inaia"
             /\ req[s].pc = "calling" /\ req[s].phase = "fetch"
             /\ req[s].timer = "pending" /\ req'[s].timer = "fired")
            => /\ req'[s].pc = "done"
               /\ req'[s].phase = "idle"
               /\ req'[s].log = Append(req[s].log, "timeout")]_vars

\* the deadline passed with the fetch still pending
C12_Witness ==
    \E s \in Slots :
      /\ variant = "inaia"
      /\ req[s].log = <<"timeout">>
      /\ req[s].elapsed = 30000
      /\ req[s].resp.status = 500

\* a 2xx reply that leaves no error behind and no output: empty text or, for
\* content, text that yields no posts
SilentFailure(route, class) ==
    IF route = PROPIEDAD THEN class = EMPTY
    ELSE class \in {EMPTY, BLANK, PROSE, BADSPAN, EMPTYARRAY}

\* C13: when every candidate of the fallback loop fails without an error being
\* captured, the response is the 500 exhaustion response whose error field is
\* 'Error de IA (Agotado)'.
C13_ExhaustedGeneric ==
    \A s \in Slots :
      LET r == req[s]
      IN  (/\ variant = "fallback"
           /\ r.pc = "done"
           /\ Len(r.log) = Len(models)
           /\ \A i \in 1 .. Len(r.log) : SilentFailure(r.route, r.log[i]))
          => /\ r.resp.status = 500
             /\ r.resp.error = "Error de IA (Agotado)"

\* C14: once callInaiaAPI has completed, in whichever way, its 30 s timer is
\* no longer pending and no upstream operation of the call is outstanding.
C14_NothingPending ==
    \A s \in Slots :
      (variant = "inaia" /\ req[s].pc = "done" /\ req[s].calls # <<>>)
      => /\ req[s].timer # "pending"
         /\ req[s].phase = "idle"

\* where the first '[' and the last ']' of a text are
Positions(toks, tok) == {i \in 1 .. Len(toks) : toks[i] = tok}

Least(S) == CHOOSE k \in S : \A l \in S : k <= l

Greatest(S) == CHOOSE k \in S : \A l \in S : k >= l

\* C15: the post parser takes the span from the first '[' to the last ']' of
\* the text and parses it as JSON, prose before and after set aside; for
\* prose, the array with the one post {content:'hi', hashtags:['#a']}, prose,
\* the result is exactly that one post.
C15_GreedySpan ==
    posts # NotParsed =>
      LET lbs == Positions(content, "[")
          rbs == Positions(content, "]")
      IN  /\ IF lbs = {} \/ rbs = {} \/ Least(lbs) > Greatest(rbs)
             THEN posts = [threw |-> FALSE, value |-> Arr(<<>>)]
             ELSE posts = JSONparseTokens(SubSeq(content, Least(lbs), Greatest(rbs)))
          /\ (\E b \in SeqsUpTo({WORD, SPACE}, MaxProse), a \in SeqsUpTo({WORD, SPACE}, MaxProse) :
                content = b \o OnePost \o a)
             => posts = [threw |-> FALSE,
                         value |-> Arr(<<Post("hi", Arr(<<Str("#a")>>))>>)]

C15_Witness ==
    /\ content = <<WORD, SPACE>> \o OnePost \o <<SPACE, WORD>>
    /\ ~posts.threw
    /\ Len(posts.value.items) = 1
    /\ posts.value.items[1].s = "hi"

\* C16: a request whose method and path match none of the three routes gets
\* 404 with the JSON body {error: 'Ruta no encontrada', path, method}, path and
\* method being those of the request.
C16_Unmatched404 ==
    \A s \in Slots :
      LET r == req[s]
      IN  (r.pc = "done" /\ r.route \in {"GET /api/unknown", "GET /"})
          => /\ r.resp.status = 404
             /\ r.resp.error = "Ruta no encontrada"
             /\ r.resp.payload = r.route

\* C17: without the upstream API key in the environment the process exits
\* and never listens, so no request is served by a process that has no key.
C17_NoKeyNoService ==
    ~apiKey => /\ proc \in {"starting", "exited"}
               /\ \A s \in Slots : req[s] = NoReq

\* not a key of the table: the field is missing, not a string, or a string
\* other than the table's keys
NotAKey(field, keys) == field.t # "string" \/ field.s \notin keys

\* C18: buildPropertyPrompt and buildContentPrompt do not throw, and a style,
\* tone or network that is not a key of its table gives the prompt the phrase
\* a missing one gives.
C18_UnknownAsMissing ==
    /\ prompt.fn # "none" => ~prompt.threw
    /\ (prompt.fn = "buildPropertyPrompt"
        /\ NotAKey(data.style, {"profesional", "emocional", "minimalista", "detallado"}))
       => prompt.style = "profesional"
    /\ (prompt.fn = "buildContentPrompt"
        /\ NotAKey(data.tone, {"profesional", "cercano", "inspiracional", "humoristico",
                               "educativo"}))
       => prompt.tone = "formal y profesional, enfocado en expertise"
    /\ (prompt.fn = "buildContentPrompt"
        /\ NotAKey(data.network, {"instagram", "facebook", "linkedin", "twitter", "tiktok"}))
       => prompt.network = "posts visuales con 3-5 hashtags, máximo 150 palabras"

ApiRoutes ==
    {"GET /api/health", "POST /api/propiedadia/generate",
     "POST /api/contenidoia/generate", "GET /api/unknown"}

\* C19: the counter of an IP is incremented by exactly the requests on /api/
\* paths that pass the cross-origin check, by one each: a request rejected for
\* its Origin leaves the counters as they are, and a request answered 400, 404
\* on an /api/ path, 500 by a handler or 200 has used one unit of the quota.
C19_CounterFrame ==
    /\ [](\A s \in Slots :
            LET r == req[s]
            IN  /\ (r.pc = "done" /\ r.resp.error \in CorsMessages) => r.totalHits = 0
                /\ r.route = "GET /" => r.totalHits = 0
                /\ (/\ r.pc = "done"
                    /\ r.route \in ApiRoutes
                    /\ r.resp.status \in {200, 400, 404, 500}
                    /\ r.resp.error \notin CorsMessages)
                   => r.totalHits >= 1)
    /\ [][/\ \A ip \in IPs :
               hits'[ip] # hits[ip]
               => \/ hits'[ip] = 0
                  \/ /\ hits'[ip] = hits[ip] + 1
                     /\ \E s \in Slots :
                          /\ req[s].ip = ip
                          /\ req[s].route \in ApiRoutes
                          /\ req[s].origin = NoOrigin \/ req[s].origin \in allowedOrigins
                          /\ req[s].totalHits = 0
                          /\ req'[s].totalHits = hits'[ip]
          /\ \A s \in Slots :
               (req[s].pc = "cors" /\ req'[s].pc = "done") => hits' = hits
          /\ \A s \in Slots :
               (/\ req[s].pc = "cors"
                /\ req'[s].pc \notin {"cors", "done"}
                /\ req[s].route \in ApiRoutes)
               => req'[s].pc = "limiter"
          /\ \A s \in Slots :
               (req[s].pc = "limiter" /\ req'[s].pc # "limiter")
               => hits'[req[s].ip] = hits[req[s].ip] + 1]_vars

\* the second request of an IP in a window, on an unmatched /api/ path
C19_Witness ==
    \E s \in Slots :
      /\ req[s].route = "GET /api/unknown"
      /\ req[s].resp.status = 404
      /\ req[s].totalHits = 2
      /\ hits[req[s].ip] = 2

\* C20: a request that reaches a generate handler gets exactly one response
\* whichever way the handler goes: none while the handler waits for the
\* upstream, one when it has ended, never two.
C20_ExactlyOneResponse ==
    \A s \in Slots :
      LET r == req[s]
      IN  (r.route \in GenerateRoutes /\ r.body.parsed)
          => \/ r.pc = "calling" /\ r.sent = 0
             \/ r.pc = "done" /\ r.sent = 1

\* the fallback loop exhausted, one response
C20_Witness ==
    \E s \in Slots :
      /\ variant = "fallback"
      /\ req[s].route = CONTENIDO
      /\ Len(req[s].log) = Len(models)
      /\ req[s].resp.status = 500
      /\ req[s].sent = 1

\* C21: every call of callInaiaAPI completes in the end, also when the
\* upstream sends its headers and then stalls in the body; so every generate
\* request that reached its handler is answered in the end.
C21_CallCompletes ==
    \A s \in Slots :
      (variant = "inaia" /\ req[s].pc = "calling") ~> (req[s].pc = "done")

====
